---- MODULE Spec2Model ----
(***************************************************************************)
(* Autonomous booking controls of the WanderGenie API (app.py): the        *)
(* hold -> approve -> capture lifecycle of a reservation, the two          *)
(* idempotency registries, the audit ledger (src/audit/store.py) and the   *)
(* payment gateway the capture handler drives (src/payment).               *)
(*                                                                         *)
(* The handlers are coroutines on one event loop.  A handler runs without  *)
(* interruption until it awaits; the only awaits are the two gateway calls *)
(* of autonomous_capture, so hold and approve are one step each and        *)
(* capture is three steps.                                                 *)
(***************************************************************************)
EXTENDS Integers, Sequences, FiniteSets, TLC

VARIABLES
    CONSENTS,             \* app.py CONSENTS: user_id -> UserConsent
    PAYMENT_TOKENS,       \* app.py PAYMENT_TOKENS: user_id -> StoredPaymentToken
    HOLDS,                \* app.py HOLDS: reservation_id -> reservation dict
    IDEMPOTENCY,          \* app.py IDEMPOTENCY: key -> reservation_id
    IDEMPOTENCY_CAPTURE,  \* app.py IDEMPOTENCY_CAPTURE: key -> capture result
    audit,                \* rows of the AuditEvent table, in insertion order
    gatewayAuthorize,     \* invocations of the gateway's authorize, in order
    gatewayCapture,       \* invocations of the gateway's capture, in order
    calls                 \* every hold/approve/capture request, in arrival order

vars == <<CONSENTS, PAYMENT_TOKENS, HOLDS, IDEMPOTENCY, IDEMPOTENCY_CAPTURE,
          audit, gatewayAuthorize, gatewayCapture, calls>>

\* ------------------------------------------------------------------ bounds
MaxCalls == 4       \* hold, approve and capture requests altogether
MaxHolds == 2       \* hold requests
MaxApproves == 2    \* approve requests
MaxCaptures == 2    \* capture requests
MaxRejected == 1    \* requests answered with an error (4xx)

\* ------------------------------------------------------------------ values
\* Python's None in an Optional[str] position.
None == "None"
\* Optional[int] and Optional[list] positions: <<>> is None, <<x>> is x.
Nothing == << >>
Some(x) == <<x>>

Last(s) == s[Len(s)]

\* f"res_{n:05d}" of autonomous_hold
ResId(n) ==
    IF n < 10 THEN "res_0000" \o ToString(n)
    ELSE IF n < 100 THEN "res_000" \o ToString(n)
    ELSE "res_00" \o ToString(n)

\* `if payload.idempotency_key:` - None and the empty string are both falsy
KeyGiven(k) == k # None /\ k # ""

\* ------------------------------------------------------------------ inputs
Users == {"u1"}
Keys == {None, "k1"}

\* BookingPolicy values sent with a hold request
PolicyAcme ==
    [max_budget_minor |-> 2, currency |-> "USD",
     allowed_vendors |-> Some(<<"Acme">>), require_two_step_payment |-> TRUE]

\* the bodies of the hold requests, without user and key
HoldArgs ==
    { [amount_minor |-> 1, currency |-> "USD", vendor |-> "Acme", policy |-> PolicyAcme],
      [amount_minor |-> 3, currency |-> "EUR", vendor |-> "Acme", policy |-> PolicyAcme] }

HoldRequest ==
    { [user_id |-> u, amount_minor |-> a.amount_minor, currency |-> a.currency,
       vendor |-> a.vendor, policy |-> a.policy, idempotency_key |-> k] :
      u \in Users, a \in HoldArgs, k \in Keys }

\* reservation ids a caller may name: the first one allocated, and one never allocated
ReservationIds == { ResId(1), "res_99999" }

ApproveRequest == { [reservation_id |-> r] : r \in ReservationIds }

CaptureRequest ==
    { [user_id |-> u, reservation_id |-> r, idempotency_key |-> k] :
      u \in Users, r \in ReservationIds, k \in Keys }

ConsentRequest == { [user_id |-> u, payment_processing |-> b] : u \in Users, b \in BOOLEAN }

\* statuses the gateway may answer with (MockGatewayClient answers the first of each)
AuthorizeStatus == {"authorized", "declined"}
CaptureStatus == {"captured", "failed"}

\* ------------------------------------------------------------------ policy
Upper(s) ==
    CASE s = "usd" -> "USD"
      [] s = "eur" -> "EUR"
      [] OTHER -> s

InList(x, list) == \E i \in 1..Len(list) : list[i] = x

\* check_policy returning at the first violated rule
check_policy_firstonly(amount_minor, currency, vendor, policy) ==
    IF policy.max_budget_minor # 0 /\ amount_minor > policy.max_budget_minor
    THEN [ok |-> FALSE,
          reasons |-> << <<"amount exceeds cap", amount_minor, policy.max_budget_minor>> >>]
    ELSE IF policy.currency # "" /\ Upper(currency) # Upper(policy.currency)
    THEN [ok |-> FALSE,
          reasons |-> << <<"currency not allowed", currency, policy.currency>> >>]
    ELSE IF policy.allowed_vendors # Nothing /\ vendor # None
            /\ ~InList(vendor, policy.allowed_vendors[1])
    THEN [ok |-> FALSE, reasons |-> << <<"vendor not in allowed list", vendor>> >>]
    ELSE [ok |-> TRUE, reasons |-> << >>]

\* check_policy taking an empty allow-list for no allow-list
\* (`if policy.allowed_vendors and vendor is not None`)
check_policy_emptylist(amount_minor, currency, vendor, policy) ==
    LET r1 == IF policy.max_budget_minor # 0 /\ amount_minor > policy.max_budget_minor
              THEN << <<"amount exceeds cap", amount_minor, policy.max_budget_minor>> >>
              ELSE << >>
        r2 == IF policy.currency # "" /\ Upper(currency) # Upper(policy.currency)
              THEN << <<"currency not allowed", currency, policy.currency>> >>
              ELSE << >>
        r3 == IF policy.allowed_vendors # Nothing /\ policy.allowed_vendors[1] # << >>
                 /\ vendor # None /\ ~InList(vendor, policy.allowed_vendors[1])
              THEN << <<"vendor not in allowed list", vendor>> >>
              ELSE << >>
    IN [ok |-> r1 = << >> /\ r2 = << >> /\ r3 = << >>, reasons |-> r1 \o r2 \o r3]

\* check_policy with the budget rule left out
check_policy_nocap(amount_minor, currency, vendor, policy) ==
    LET r2 == IF policy.currency # "" /\ Upper(currency) # Upper(policy.currency)
              THEN << <<"currency not allowed", currency, policy.currency>> >>
              ELSE << >>
        r3 == IF policy.allowed_vendors # Nothing /\ vendor # None
                 /\ ~InList(vendor, policy.allowed_vendors[1])
              THEN << <<"vendor not in allowed list", vendor>> >>
              ELSE << >>
    IN [ok |-> r2 = << >> /\ r3 = << >>, reasons |-> r2 \o r3]

\* the three rules of check_policy, each appending its reason when violated
check_policy(amount_minor, currency, vendor, policy) ==
    LET r1 == IF policy.max_budget_minor # 0 /\ amount_minor > policy.max_budget_minor
              THEN << <<"amount exceeds cap", amount_minor, policy.max_budget_minor>> >>
              ELSE << >>
        r2 == IF policy.currency # "" /\ Upper(currency) # Upper(policy.currency)
              THEN << <<"currency not allowed", currency, policy.currency>> >>
              ELSE << >>
        r3 == IF policy.allowed_vendors # Nothing /\ vendor # None
                 /\ ~InList(vendor, policy.allowed_vendors[1])
              THEN << <<"vendor not in allowed list", vendor>> >>
              ELSE << >>
    IN [ok |-> r1 = << >> /\ r2 = << >> /\ r3 = << >>, reasons |-> r1 \o r2 \o r3]

\* ------------------------------------------------------------------ audit
\* record_event putting the new row in front of the others
record_event_front(evt) == audit' = <<evt>> \o audit

\* record_event writing over the last row
record_event_over(evt) ==
    audit' = IF audit = << >> THEN <<evt>> ELSE [audit EXCEPT ![Len(audit)] = evt]

\* record_event: one row appended to the AuditEvent table.  app.py never
\* passes `reasons`; the reasons travel in `details`.  created_at is the clock
\* read when the row is built (datetime.utcnow); every insert commits to the
\* database before the next row is built, and the clock is taken to have moved
\* on by then, so created_at grows with the row's position.
AuditEvent(actor, action, status, reservation_id, amount_minor, currency, vendor, details) ==
    [id |-> Len(audit) + 1, created_at |-> Len(audit) + 1,
     actor |-> actor, action |-> action, status |-> status,
     reservation_id |-> reservation_id, amount_minor |-> amount_minor,
     currency |-> currency, vendor |-> vendor, reasons |-> None, details |-> details]

record_event(evt) == audit' = Append(audit, evt)

Details(reasons) == Some([reasons |-> reasons])

\* ------------------------------------------------------------------ calls
NoResponse ==
    [code |-> 0, status |-> None, error |-> None, reservation_id |-> None,
     payment |-> Nothing, idempotent |-> None, reasons |-> << >>]

Response(code, status, error, reservation_id, payment, idempotent, reasons) ==
    [code |-> code, status |-> status, error |-> error, reservation_id |-> reservation_id,
     payment |-> payment, idempotent |-> idempotent, reasons |-> reasons]

\* the requests whose handler has not returned yet
InFlight == { i \in 1..Len(calls) : calls[i].pc # "done" }

\* a request: what was asked, where its handler stands (pc), the gateway
\* invocation it waits for or last made (gw, 0 when none), what it answered
\* (resp; listing for the rows GET /api/audit/recent returns), how many audit
\* rows it has written so far, and the requests that were in flight when it
\* arrived
Call(op, user_id, reservation_id, key, args, pc, resp, events) ==
    [op |-> op, user_id |-> user_id, reservation_id |-> reservation_id,
     idempotency_key |-> key, args |-> args, pc |-> pc, gw |-> 0,
     auth_res |-> Nothing, resp |-> resp, listing |-> << >>, events |-> events,
     inflight |-> InFlight]

CallsOf(op) == { i \in 1..Len(calls) : calls[i].op = op }

\* request j arrived while request i was still running / after i had returned
Concurrent(i, j) == i < j /\ i \in calls[j].inflight
Successive(i, j) == i < j /\ i \notin calls[j].inflight

\* the requests answered with an error so far, and whether one more fits the bound
Rejected == { i \in 1..Len(calls) : calls[i].resp.code >= 400 }
MayReject == Cardinality(Rejected) < MaxRejected

\* ------------------------------------------------------------------ Init
\* _startup(): every map empty; the audit table has no row
Init ==
    /\ CONSENTS = << >>
    /\ PAYMENT_TOKENS = << >>
    /\ HOLDS = << >>
    /\ IDEMPOTENCY = << >>
    /\ IDEMPOTENCY_CAPTURE = << >>
    /\ audit = << >>
    /\ gatewayAuthorize = << >>
    /\ gatewayCapture = << >>
    /\ calls = << >>

\* dict[k] = v and `k in dict`
Put(map, k, v) == [x \in DOMAIN map \cup {k} |-> IF x = k THEN v ELSE map[x]]
Has(map, k) == k \in DOMAIN map

NoArgs == [amount_minor |-> Nothing, currency |-> None, vendor |-> None, policy |-> Nothing]
HoldArgsOf(payload) ==
    [amount_minor |-> Some(payload.amount_minor), currency |-> payload.currency,
     vendor |-> payload.vendor, policy |-> Some(payload.policy)]

\* ------------------------------------------------------------------ consent, tokens
\* POST /api/consent
set_consent(consent) ==
    /\ CONSENTS' = Put(CONSENTS, consent.user_id,
                       [user_id |-> consent.user_id,
                        scopes |-> [payment_processing |-> consent.payment_processing]])
    /\ UNCHANGED <<PAYMENT_TOKENS, HOLDS, IDEMPOTENCY, IDEMPOTENCY_CAPTURE, audit,
                   gatewayAuthorize, gatewayCapture, calls>>

\* POST /api/payment/store-token
store_payment_token(user_id) ==
    /\ PAYMENT_TOKENS' = Put(PAYMENT_TOKENS, user_id, [label |-> user_id])
    /\ UNCHANGED <<CONSENTS, HOLDS, IDEMPOTENCY, IDEMPOTENCY_CAPTURE, audit,
                   gatewayAuthorize, gatewayCapture, calls>>

\* ------------------------------------------------------------------ hold
\* hold_existing with the registry lookup left out
hold_existing_miss(payload) == None

\* IDEMPOTENCY.get(key) behind `if payload.idempotency_key:`; None when not consulted
hold_existing(payload) ==
    IF KeyGiven(payload.idempotency_key) /\ Has(IDEMPOTENCY, payload.idempotency_key)
    THEN IDEMPOTENCY[payload.idempotency_key]
    ELSE None

\* hold_no_consent looked at only once the key has missed the hold registry
hold_no_consent_afterkey(payload) ==
    ~Has(CONSENTS, payload.user_id) /\ hold_existing(payload) = None

\* `consent = CONSENTS.get(payload.user_id)` and `if not consent:` of autonomous_hold
hold_no_consent(payload) == ~Has(CONSENTS, payload.user_id)

\* the reservation dict stored by a successful hold
NewHold(payload) ==
    [status |-> "HELD", user_id |-> payload.user_id, amount_minor |-> payload.amount_minor,
     currency |-> payload.currency, vendor |-> payload.vendor,
     require_two_step |-> payload.policy.require_two_step_payment, payment_id |-> Nothing]

\* hold_register with the registration left out
hold_register_skip(payload, reservation_id) == IDEMPOTENCY

\* hold_register with the `if payload.idempotency_key:` guard left out
hold_register_always(payload, reservation_id) ==
    Put(IDEMPOTENCY, payload.idempotency_key, reservation_id)

\* IDEMPOTENCY after a successful hold
hold_register(payload, reservation_id) ==
    IF KeyGiven(payload.idempotency_key)
    THEN Put(IDEMPOTENCY, payload.idempotency_key, reservation_id)
    ELSE IDEMPOTENCY

\* POST /api/autonomous/hold: no await, one step
autonomous_hold(payload) ==
    LET existing == hold_existing(payload)
        policy_res == check_policy(payload.amount_minor, payload.currency,
                                   payload.vendor, payload.policy)
        reservation_id == ResId(Cardinality(DOMAIN HOLDS) + 1)
        Evt(action, status, rid, details) ==
            AuditEvent(payload.user_id, action, status, rid, Some(payload.amount_minor),
                       payload.currency, payload.vendor, details)
        Done(resp) ==
            calls' = Append(calls, Call("hold", payload.user_id, None,
                                        payload.idempotency_key, HoldArgsOf(payload),
                                        "done", resp, 1))
    IN
    /\ Len(calls) < MaxCalls
    /\ Cardinality(CallsOf("hold")) < MaxHolds
    /\ UNCHANGED <<CONSENTS, PAYMENT_TOKENS, IDEMPOTENCY_CAPTURE,
                   gatewayAuthorize, gatewayCapture>>
    /\ IF hold_no_consent(payload) THEN
            /\ MayReject
            /\ record_event(Evt("PROPOSED", "error", None, Details(<<"no consent">>)))
            /\ Done(Response(400, None, "no consent", None, Nothing, None, << >>))
            /\ UNCHANGED <<HOLDS, IDEMPOTENCY>>
       ELSE IF existing # None THEN
            /\ record_event(Evt("HELD", "ok", existing, Details(<<"idempotent-return">>)))
            /\ Done(Response(200, "HELD", None, existing, Nothing, "True", << >>))
            /\ UNCHANGED <<HOLDS, IDEMPOTENCY>>
       ELSE IF ~policy_res.ok THEN
            /\ MayReject
            /\ record_event(Evt("PROPOSED", "denied", None, Details(policy_res.reasons)))
            /\ Done(Response(400, "denied", None, None, Nothing, None, policy_res.reasons))
            /\ UNCHANGED <<HOLDS, IDEMPOTENCY>>
       ELSE
            /\ HOLDS' = Put(HOLDS, reservation_id, NewHold(payload))
            /\ IDEMPOTENCY' = hold_register(payload, reservation_id)
            /\ record_event(Evt("HELD", "ok", reservation_id, Nothing))
            /\ Done(Response(200, "HELD", None, reservation_id, Nothing, None, << >>))

\* ------------------------------------------------------------------ approve
\* approve_status undoing an approval that was already given
approve_status_toggle(rec) == IF rec.status = "APPROVED" THEN "HELD" ELSE "APPROVED"

\* the state autonomous_approve writes
approve_status(rec) == "APPROVED"

\* POST /api/autonomous/approve: no await, one step
autonomous_approve(payload) ==
    LET rid == payload.reservation_id
        Done(resp, n) ==
            calls' = Append(calls, Call("approve", None, rid, None, NoArgs, "done", resp, n))
    IN
    /\ Len(calls) < MaxCalls
    /\ Cardinality(CallsOf("approve")) < MaxApproves
    /\ UNCHANGED <<CONSENTS, PAYMENT_TOKENS, IDEMPOTENCY, IDEMPOTENCY_CAPTURE,
                   gatewayAuthorize, gatewayCapture>>
    /\ IF ~Has(HOLDS, rid) THEN
            /\ MayReject
            /\ Done(Response(404, None, "no reservation", None, Nothing, None, << >>), 0)
            /\ UNCHANGED <<HOLDS, audit>>
       ELSE
            /\ HOLDS' = [HOLDS EXCEPT ![rid].status = approve_status(HOLDS[rid])]
            /\ record_event(AuditEvent(HOLDS[rid].user_id, "APPROVED", "ok", rid,
                                       Nothing, None, None, Nothing))
            /\ Done(Response(200, "APPROVED", None, rid, Nothing, None, << >>), 1)

\* ------------------------------------------------------------------ gateway
\* MockGatewayClient.authorize: the answer to the n-th authorize invocation
gateway_authorize(n, status) ==
    [status |-> status, authorization_id |-> n,
     amount_minor |-> gatewayAuthorize[n].amount_minor,
     currency |-> gatewayAuthorize[n].currency]

\* MockGatewayClient.capture: the answer to the n-th capture invocation
gateway_capture(n, status) ==
    [status |-> status,
     payment_id |-> IF status = "captured" THEN Some(n) ELSE Nothing,
     authorization_id |-> gatewayCapture[n].authorization_id]

\* ------------------------------------------------------------------ capture
\* capture_existing with the registry lookup left out
capture_existing_miss(payload) == Nothing

\* IDEMPOTENCY_CAPTURE.get(key) behind `if payload.idempotency_key:`; Nothing when
\* not consulted or absent
capture_existing(payload) ==
    IF KeyGiven(payload.idempotency_key)
       /\ Has(IDEMPOTENCY_CAPTURE, payload.idempotency_key)
    THEN Some(IDEMPOTENCY_CAPTURE[payload.idempotency_key])
    ELSE Nothing

\* capture_permission consulted only once the key has missed the capture registry
capture_permission_afterkey(payload) ==
    IF capture_existing(payload) # Nothing THEN None
    ELSE IF ~Has(CONSENTS, payload.user_id) THEN "no consent"
    ELSE IF ~CONSENTS[payload.user_id].scopes.payment_processing
         THEN "payment_processing scope missing"
    ELSE None

\* capture_permission with the scope check left out
capture_permission_consentonly(payload) ==
    IF ~Has(CONSENTS, payload.user_id) THEN "no consent" ELSE None

\* the consent and scope checks that open autonomous_capture: the error the
\* call returns, or None when it goes on
capture_permission(payload) ==
    IF ~Has(CONSENTS, payload.user_id) THEN "no consent"
    ELSE IF ~CONSENTS[payload.user_id].scopes.payment_processing
         THEN "payment_processing scope missing"
    ELSE None

PermissionCode(error) == IF error = "no consent" THEN 400 ELSE 403

\* capture_rejection with the APPROVED check left out
capture_rejection_nostate(payload) ==
    IF ~Has(HOLDS, payload.reservation_id) THEN "no reservation"
    ELSE IF ~Has(PAYMENT_TOKENS, payload.user_id) THEN "no payment token"
    ELSE None

\* the checks between the idempotency lookup and the gateway call: the error
\* the call returns, or None when it goes on to authorize
capture_rejection(payload) ==
    IF ~Has(HOLDS, payload.reservation_id) THEN "no reservation"
    ELSE IF HOLDS[payload.reservation_id].status # "APPROVED" THEN "reservation not approved"
    ELSE IF ~Has(PAYMENT_TOKENS, payload.user_id) THEN "no payment token"
    ELSE None

RejectionCode(error) == IF error = "no reservation" THEN 404 ELSE 400

\* capture_register with the registration left out
capture_register_skip(key, cap_res) == IDEMPOTENCY_CAPTURE

\* capture_register with the `if payload.idempotency_key:` guard left out
capture_register_always(key, cap_res) == Put(IDEMPOTENCY_CAPTURE, key, cap_res)

\* IDEMPOTENCY_CAPTURE after a capture that went through
capture_register(key, cap_res) ==
    IF KeyGiven(key) THEN Put(IDEMPOTENCY_CAPTURE, key, cap_res) ELSE IDEMPOTENCY_CAPTURE

\* authorize_call charging what the first reservation of the store says
authorize_call_first(payload) ==
    [amount_minor |-> HOLDS[ResId(1)].amount_minor,
     currency |-> HOLDS[ResId(1)].currency,
     method |-> PAYMENT_TOKENS[payload.user_id].label,
     reservation_id |-> payload.reservation_id]

\* the arguments of `payment_processor.authorize(rec["amount_minor"],
\* rec["currency"], method, details={"reservation_id": ...})`
authorize_call(payload) ==
    [amount_minor |-> HOLDS[payload.reservation_id].amount_minor,
     currency |-> HOLDS[payload.reservation_id].currency,
     method |-> PAYMENT_TOKENS[payload.user_id].label,
     reservation_id |-> payload.reservation_id]

\* POST /api/autonomous/capture, up to `await payment_processor.authorize(...)`
capture_begin(payload) ==
    LET rid == payload.reservation_id
        permission == capture_permission(payload)
        existing == capture_existing(payload)
        rejection == capture_rejection(payload)
        New(pc, resp, n) ==
            Call("capture", payload.user_id, rid, payload.idempotency_key, NoArgs, pc, resp, n)
        Done(resp, n) == calls' = Append(calls, New("done", resp, n))
        Evt(reason) ==
            AuditEvent(payload.user_id, "CAPTURED", "error", rid, Nothing, None, None,
                       Details(<<reason>>))
    IN
    /\ Len(calls) < MaxCalls
    /\ Cardinality(CallsOf("capture")) < MaxCaptures
    /\ UNCHANGED <<CONSENTS, PAYMENT_TOKENS, HOLDS, IDEMPOTENCY, IDEMPOTENCY_CAPTURE,
                   gatewayCapture>>
    /\ IF permission # None THEN
            /\ MayReject
            /\ record_event(Evt(permission))
            /\ Done(Response(PermissionCode(permission), None, permission, None,
                             Nothing, None, << >>), 1)
            /\ UNCHANGED gatewayAuthorize
       ELSE IF existing # Nothing THEN
            /\ Done(Response(200, "CONFIRMED", None, rid, existing, "True", << >>), 0)
            /\ UNCHANGED <<audit, gatewayAuthorize>>
       ELSE IF rejection # None THEN
            /\ MayReject
            /\ Done(Response(RejectionCode(rejection), None, rejection, None,
                             Nothing, None, << >>), 0)
            /\ UNCHANGED <<audit, gatewayAuthorize>>
       ELSE
            /\ gatewayAuthorize' = Append(gatewayAuthorize, authorize_call(payload))
            /\ calls' = Append(calls, [New("authorize", NoResponse, 0)
                                         EXCEPT !.gw = Len(gatewayAuthorize) + 1])
            /\ UNCHANGED audit

\* authorization_failed looking for the one status "error"
authorization_failed_onlyerror(auth_res) == auth_res.status = "error"

\* `if auth_res.get("status") != "authorized":`
authorization_failed(auth_res) == auth_res.status # "authorized"

\* capture_resumes for a handler that goes on only while its reservation is
\* still APPROVED
capture_resumes_ifapproved(c, at) ==
    c.op = "capture" /\ c.pc = at /\ HOLDS[c.reservation_id].status = "APPROVED"

\* the request stands at one of the two `await payment_processor...` and goes on
\* as soon as the gateway has answered, whatever the other requests did meanwhile
capture_resumes(c, at) == c.op = "capture" /\ c.pc = at

\* autonomous_capture resumed with the gateway's answer to authorize, up to
\* `await payment_processor.capture(...)`
capture_authorized(i, status) ==
    LET c == calls[i]
        rec == HOLDS[c.reservation_id]
        auth_res == gateway_authorize(c.gw, status)
    IN
    /\ capture_resumes(c, "authorize")
    /\ UNCHANGED <<CONSENTS, PAYMENT_TOKENS, HOLDS, IDEMPOTENCY, IDEMPOTENCY_CAPTURE,
                   gatewayAuthorize>>
    /\ IF authorization_failed(auth_res) THEN
            /\ MayReject
            /\ record_event(AuditEvent(c.user_id, "AUTHORIZED", "error", c.reservation_id,
                                       Some(rec.amount_minor), rec.currency, rec.vendor,
                                       Nothing))
            /\ calls' = [calls EXCEPT ![i].pc = "done",
                                      ![i].auth_res = Some(auth_res),
                                      ![i].events = @ + 1,
                                      ![i].resp = Response(400, None, "authorization failed",
                                                           None, Nothing, None, << >>)]
            /\ UNCHANGED gatewayCapture
       ELSE
            /\ gatewayCapture' =
                   Append(gatewayCapture, [authorization_id |-> auth_res.authorization_id])
            /\ calls' = [calls EXCEPT ![i].pc = "capture",
                                      ![i].auth_res = Some(auth_res),
                                      ![i].gw = Len(gatewayCapture) + 1]
            /\ UNCHANGED audit

\* the state a reservation gets once the gateway has answered the capture
capture_status(cap_res) == "CONFIRMED"

\* autonomous_capture resumed with the gateway's answer to capture, to its return
capture_captured(i, status) ==
    LET c == calls[i]
        rec == HOLDS[c.reservation_id]
        cap_res == gateway_capture(c.gw, status)
    IN
    /\ capture_resumes(c, "capture")
    /\ UNCHANGED <<CONSENTS, PAYMENT_TOKENS, IDEMPOTENCY, gatewayAuthorize, gatewayCapture>>
    /\ HOLDS' = [HOLDS EXCEPT ![c.reservation_id].status = capture_status(cap_res),
                              ![c.reservation_id].payment_id = cap_res.payment_id]
    /\ record_event(AuditEvent(c.user_id, "CAPTURED", "ok", c.reservation_id,
                               Some(rec.amount_minor), rec.currency, rec.vendor, Nothing))
    /\ IDEMPOTENCY_CAPTURE' = capture_register(c.idempotency_key, cap_res)
    /\ calls' = [calls EXCEPT ![i].pc = "done",
                              ![i].events = @ + 1,
                              ![i].resp = Response(200, "CONFIRMED", None, c.reservation_id,
                                                   Some(cap_res),
                                                   IF KeyGiven(c.idempotency_key)
                                                   THEN "True" ELSE "False", << >>)]

\* ------------------------------------------------------------------ Next
Next ==
    \/ \E consent \in ConsentRequest : set_consent(consent)
    \/ \E u \in Users : store_payment_token(u)
    \/ \E payload \in HoldRequest : autonomous_hold(payload)
    \/ \E payload \in ApproveRequest : autonomous_approve(payload)
    \/ \E payload \in CaptureRequest : capture_begin(payload)
    \/ \E i \in 1..Len(calls), st \in AuthorizeStatus : capture_authorized(i, st)
    \/ \E i \in 1..Len(calls), st \in CaptureStatus : capture_captured(i, st)

Spec == Init /\ [][Next]_vars

\* ------------------------------------------------------------------ audit queries
MaxLists == 1    \* GET /api/audit/recent requests

Min(a, b) == IF a < b THEN a ELSE b

\* ORDER BY created_at DESC over a set of rows
RECURSIVE OrderByCreatedAtDesc(_)
OrderByCreatedAtDesc(rows) ==
    IF rows = {} THEN << >>
    ELSE LET latest == CHOOSE e \in rows : \A o \in rows : o.created_at <= e.created_at
         IN <<latest>> \o OrderByCreatedAtDesc(rows \ {latest})

\* LIMIT n of SQLite (sqlite:///wandergenie.db): a negative n is no limit
LimitRows(rows, n) == IF n < 0 THEN rows ELSE SubSeq(rows, 1, Min(n, Len(rows)))

\* list_events without the ORDER BY: rows in insertion order
list_events_unordered(limit) == LimitRows(audit, limit)

\* list_events: select(AuditEvent).order_by(created_at.desc()).limit(limit)
list_events(limit) ==
    LimitRows(OrderByCreatedAtDesc({ audit[n] : n \in 1..Len(audit) }), limit)

\* `if actor:` / `if action:` - None and the empty string do not filter
Filtered(events, field, value) ==
    IF value = None \/ value = "" THEN events
    ELSE SelectSeq(events, LAMBDA e : e[field] = value)

\* the dict recent_audit returns for a row (details is not returned)
Listed(e) ==
    [id |-> e.id, created_at |-> e.created_at, actor |-> e.actor, action |-> e.action,
     status |-> e.status, reservation_id |-> e.reservation_id,
     amount_minor |-> e.amount_minor, currency |-> e.currency, vendor |-> e.vendor,
     reasons |-> e.reasons]

\* GET /api/audit/recent: the limit is applied by the query, the filters afterwards
recent_audit(limit, actor, action) ==
    LET events == Filtered(Filtered(list_events(limit), "actor", actor), "action", action)
        listing == [n \in 1..Len(events) |-> Listed(events[n])]
    IN
    /\ Len(calls) < MaxCalls
    /\ Cardinality(CallsOf("list")) < MaxLists
    /\ calls' = Append(calls,
                       [Call("list", None, None, None,
                             [limit |-> limit, actor |-> actor, action |-> action],
                             "done",
                             Response(200, None, None, None, Nothing, None, << >>), 0)
                          EXCEPT !.listing = listing])
    /\ UNCHANGED <<CONSENTS, PAYMENT_TOKENS, HOLDS, IDEMPOTENCY, IDEMPOTENCY_CAPTURE,
                   audit, gatewayAuthorize, gatewayCapture>>

\* The handlers that write the ledger, called by two users (of whom "u2" has
\* posted no consent), and the audit query.  The gateway answers as
\* MockGatewayClient does.
Limits == {-1, 1, 2}
ActorFilters == {None, "u2"}
ActionFilters == {None, "HELD"}

HoldRequestAudit ==
    { [user_id |-> u, amount_minor |-> 1, currency |-> "USD", vendor |-> "Acme",
       policy |-> PolicyAcme, idempotency_key |-> None] : u \in {"u1", "u2"} }

NextAudit ==
    \/ set_consent([user_id |-> "u1", payment_processing |-> TRUE])
    \/ store_payment_token("u1")
    \/ \E payload \in HoldRequestAudit : autonomous_hold(payload)
    \/ autonomous_approve([reservation_id |-> ResId(1)])
    \/ capture_begin([user_id |-> "u1", reservation_id |-> ResId(1),
                      idempotency_key |-> None])
    \/ \E i \in 1..Len(calls) : capture_authorized(i, "authorized")
    \/ \E i \in 1..Len(calls) : capture_captured(i, "captured")
    \/ \E limit \in Limits, actor \in ActorFilters, action \in ActionFilters :
           recent_audit(limit, actor, action)

SpecAudit == Init /\ [][NextAudit]_vars

\* ------------------------------------------------------------------ storage failures
\* record_event commits to the database and may raise.  No handler catches the
\* exception: the handler stops at the record_event call, what it wrote to the
\* maps before stays written, and the caller gets 500 instead of the response
\* the handler was about to give.

\* StorageFailure with the exception caught and passed over
StorageFailure_swallowed(resp) == resp

\* the answer to a request whose handler raised in record_event
StorageFailure(resp) == Response(500, None, "storage failure", None, Nothing, None, << >>)

\* autonomous_hold, its record_event raising
hold_storage_failure(payload) ==
    LET existing == hold_existing(payload)
        policy_res == check_policy(payload.amount_minor, payload.currency,
                                   payload.vendor, payload.policy)
        reservation_id == ResId(Cardinality(DOMAIN HOLDS) + 1)
        Done(resp) ==
            calls' = Append(calls, Call("hold", payload.user_id, None,
                                        payload.idempotency_key, HoldArgsOf(payload),
                                        "done", StorageFailure(resp), 0))
    IN
    /\ Len(calls) < MaxCalls
    /\ Cardinality(CallsOf("hold")) < MaxHolds
    /\ MayReject
    /\ UNCHANGED <<CONSENTS, PAYMENT_TOKENS, IDEMPOTENCY_CAPTURE, audit,
                   gatewayAuthorize, gatewayCapture>>
    /\ IF hold_no_consent(payload) THEN
            /\ Done(Response(400, None, "no consent", None, Nothing, None, << >>))
            /\ UNCHANGED <<HOLDS, IDEMPOTENCY>>
       ELSE IF existing # None THEN
            /\ Done(Response(200, "HELD", None, existing, Nothing, "True", << >>))
            /\ UNCHANGED <<HOLDS, IDEMPOTENCY>>
       ELSE IF ~policy_res.ok THEN
            /\ Done(Response(400, "denied", None, None, Nothing, None, policy_res.reasons))
            /\ UNCHANGED <<HOLDS, IDEMPOTENCY>>
       ELSE
            /\ HOLDS' = Put(HOLDS, reservation_id, NewHold(payload))
            /\ IDEMPOTENCY' = hold_register(payload, reservation_id)
            /\ Done(Response(200, "HELD", None, reservation_id, Nothing, None, << >>))

\* autonomous_approve, its record_event raising
approve_storage_failure(payload) ==
    LET rid == payload.reservation_id
    IN
    /\ Len(calls) < MaxCalls
    /\ Cardinality(CallsOf("approve")) < MaxApproves
    /\ MayReject
    /\ Has(HOLDS, rid)
    /\ HOLDS' = [HOLDS EXCEPT ![rid].status = approve_status(HOLDS[rid])]
    /\ calls' = Append(calls,
                       Call("approve", None, rid, None, NoArgs, "done",
                            StorageFailure(Response(200, "APPROVED", None, rid,
                                                    Nothing, None, << >>)), 0))
    /\ UNCHANGED <<CONSENTS, PAYMENT_TOKENS, IDEMPOTENCY, IDEMPOTENCY_CAPTURE, audit,
                   gatewayAuthorize, gatewayCapture>>

\* autonomous_capture refusing for consent or scope, its record_event raising
capture_begin_storage_failure(payload) ==
    LET permission == capture_permission(payload)
    IN
    /\ Len(calls) < MaxCalls
    /\ Cardinality(CallsOf("capture")) < MaxCaptures
    /\ MayReject
    /\ permission # None
    /\ calls' = Append(calls,
                       Call("capture", payload.user_id, payload.reservation_id,
                            payload.idempotency_key, NoArgs, "done",
                            StorageFailure(Response(PermissionCode(permission), None,
                                                    permission, None, Nothing, None,
                                                    << >>)), 0))
    /\ UNCHANGED <<CONSENTS, PAYMENT_TOKENS, HOLDS, IDEMPOTENCY, IDEMPOTENCY_CAPTURE,
                   audit, gatewayAuthorize, gatewayCapture>>

\* autonomous_capture resumed with a failed authorization, its record_event raising
capture_authorized_storage_failure(i, status) ==
    LET c == calls[i]
        auth_res == gateway_authorize(c.gw, status)
    IN
    /\ capture_resumes(c, "authorize")
    /\ MayReject
    /\ authorization_failed(auth_res)
    /\ calls' = [calls EXCEPT ![i].pc = "done",
                              ![i].auth_res = Some(auth_res),
                              ![i].resp =
                                  StorageFailure(Response(400, None, "authorization failed",
                                                          None, Nothing, None, << >>))]
    /\ UNCHANGED <<CONSENTS, PAYMENT_TOKENS, HOLDS, IDEMPOTENCY, IDEMPOTENCY_CAPTURE,
                   audit, gatewayAuthorize, gatewayCapture>>

\* autonomous_capture resumed with the gateway's answer to capture, its
\* record_event raising: the reservation is already written, the registry not yet
capture_captured_storage_failure(i, status) ==
    LET c == calls[i]
        cap_res == gateway_capture(c.gw, status)
    IN
    /\ capture_resumes(c, "capture")
    /\ MayReject
    /\ HOLDS' = [HOLDS EXCEPT ![c.reservation_id].status = capture_status(cap_res),
                              ![c.reservation_id].payment_id = cap_res.payment_id]
    /\ calls' = [calls EXCEPT ![i].pc = "done",
                              ![i].resp =
                                  StorageFailure(
                                      Response(200, "CONFIRMED", None, c.reservation_id,
                                               Some(cap_res),
                                               IF KeyGiven(c.idempotency_key)
                                               THEN "True" ELSE "False", << >>))]
    /\ UNCHANGED <<CONSENTS, PAYMENT_TOKENS, IDEMPOTENCY, IDEMPOTENCY_CAPTURE, audit,
                   gatewayAuthorize, gatewayCapture>>

HoldRequestStorage ==
    { [user_id |-> "u1", amount_minor |-> 1, currency |-> "USD", vendor |-> "Acme",
       policy |-> PolicyAcme, idempotency_key |-> k] : k \in Keys }

CaptureRequestStorage ==
    { [user_id |-> "u1", reservation_id |-> ResId(1), idempotency_key |-> k] : k \in Keys }

NextStorage ==
    \/ \E consent \in ConsentRequest : set_consent(consent)
    \/ store_payment_token("u1")
    \/ \E payload \in HoldRequestStorage : autonomous_hold(payload)
    \/ \E payload \in HoldRequestStorage : hold_storage_failure(payload)
    \/ autonomous_approve([reservation_id |-> ResId(1)])
    \/ approve_storage_failure([reservation_id |-> ResId(1)])
    \/ \E payload \in CaptureRequestStorage : capture_begin(payload)
    \/ \E payload \in CaptureRequestStorage : capture_begin_storage_failure(payload)
    \/ \E i \in 1..Len(calls), st \in AuthorizeStatus : capture_authorized(i, st)
    \/ \E i \in 1..Len(calls), st \in AuthorizeStatus :
           capture_authorized_storage_failure(i, st)
    \/ \E i \in 1..Len(calls), st \in CaptureStatus : capture_captured(i, st)
    \/ \E i \in 1..Len(calls), st \in CaptureStatus :
           capture_captured_storage_failure(i, st)

SpecStorage == Init /\ [][NextStorage]_vars

\* ------------------------------------------------------------------ two callers
\* The same handlers with a second caller, "u2", who has posted no consent:
\* idempotency keys and reservation ids are shared by all callers, so "u2" can
\* send a key that "u1" has registered and name a reservation "u1" holds.
Callers == {"u1", "u2"}

HoldRequestCallers ==
    { [user_id |-> u, amount_minor |-> a.amount_minor, currency |-> a.currency,
       vendor |-> a.vendor, policy |-> a.policy, idempotency_key |-> k] :
      u \in Callers, a \in HoldArgs, k \in Keys }

CaptureRequestCallers ==
    { [user_id |-> u, reservation_id |-> r, idempotency_key |-> k] :
      u \in Callers, r \in ReservationIds, k \in Keys }

NextCallers ==
    \/ set_consent([user_id |-> "u1", payment_processing |-> TRUE])
    \/ store_payment_token("u1")
    \/ \E payload \in HoldRequestCallers : autonomous_hold(payload)
    \/ \E payload \in ApproveRequest : autonomous_approve(payload)
    \/ \E payload \in CaptureRequestCallers : capture_begin(payload)
    \/ \E i \in 1..Len(calls), st \in AuthorizeStatus : capture_authorized(i, st)
    \/ \E i \in 1..Len(calls), st \in CaptureStatus : capture_captured(i, st)

SpecCallers == Init /\ [][NextCallers]_vars

\* ------------------------------------------------------------------ policy inputs
\* autonomous_hold over the inputs of check_policy: amounts at and over the
\* cap; no cap; currencies in either case; no policy currency; vendor absent,
\* listed and unlisted; allow-list absent, empty and filled.
MaxPolicyHolds == 1    \* hold requests of one run

PolicyAmounts == {-1, 2, 3}
PolicyCaps == {0, 2}
PolicyCurrencies == {"USD", "eur"}
PolicyPolicyCurrencies == {"usd", ""}
PolicyVendors == {None, "Acme", "Zed"}
PolicyAllowed == {Nothing, Some(<< >>), Some(<<"Bolt", "Acme">>)}

BookingPolicy ==
    { [max_budget_minor |-> cap, currency |-> cur, allowed_vendors |-> allowed,
       require_two_step_payment |-> TRUE] :
      cap \in PolicyCaps, cur \in PolicyPolicyCurrencies, allowed \in PolicyAllowed }

HoldRequestPolicy ==
    { [user_id |-> "u1", amount_minor |-> a, currency |-> cur, vendor |-> v,
       policy |-> p, idempotency_key |-> None] :
      a \in PolicyAmounts, cur \in PolicyCurrencies, v \in PolicyVendors,
      p \in BookingPolicy }

NextPolicy ==
    \/ set_consent([user_id |-> "u1", payment_processing |-> TRUE])
    \/ \E payload \in HoldRequestPolicy :
           Cardinality(CallsOf("hold")) < MaxPolicyHolds /\ autonomous_hold(payload)

SpecPolicy == Init /\ [][NextPolicy]_vars

\* ================================================================== claims

Captures == CallsOf("capture")
Holds == CallsOf("hold")

\* the capture request went as far as the gateway's authorize
ReachedGateway(i) == calls[i].gw # 0
\* the gateway answered "authorized" to the capture request
WasAuthorized(i) ==
    calls[i].auth_res # Nothing /\ calls[i].auth_res[1].status = "authorized"
\* the capture request was answered from the capture registry
IsReplay(i) ==
    calls[i].op = "capture" /\ calls[i].pc = "done" /\ calls[i].resp.code = 200
    /\ ~ReachedGateway(i)

\* C1: concurrent capture requests for the same reservation that bear the same
\* idempotency key make the gateway authorize (and capture) once in total, and
\* every one of them gets the same payment result.
C1_SameKeyCapturedOnce ==
    \A i, j \in Captures :
        ( /\ Concurrent(i, j)
          /\ KeyGiven(calls[i].idempotency_key)
          /\ calls[i].idempotency_key = calls[j].idempotency_key
          /\ calls[i].reservation_id = calls[j].reservation_id
          /\ WasAuthorized(i) )
        => /\ ~ReachedGateway(j)
           /\ (calls[i].pc = "done" /\ calls[j].pc = "done")
                => calls[j].resp.payment = calls[i].resp.payment

\* C2: of two concurrent capture requests for one reservation, bearing different
\* keys or none, at most one passes the APPROVED check and calls the gateway.
C2_CaptureSerialized ==
    \A i, j \in Captures :
        ( /\ Concurrent(i, j)
          /\ calls[i].reservation_id = calls[j].reservation_id
          /\ \/ calls[i].idempotency_key # calls[j].idempotency_key
             \/ ~KeyGiven(calls[i].idempotency_key) )
        => ~(ReachedGateway(i) /\ ReachedGateway(j))

\* the arguments of hold request i pass check_policy
PolicyOk(i) ==
    check_policy(calls[i].args.amount_minor[1], calls[i].args.currency,
                 calls[i].args.vendor, calls[i].args.policy[1]).ok

HeldKeys ==
    { calls[i].idempotency_key :
        i \in { h \in Holds : KeyGiven(calls[h].idempotency_key)
                              /\ calls[h].resp.status = "HELD" } }
HeldWithoutKey ==
    { i \in Holds : ~KeyGiven(calls[i].idempotency_key) /\ calls[i].resp.status = "HELD" }

\* C3: hold requests bearing the same idempotency key (consent given, policy
\* passed), in any order of arrival, create one reservation between them and
\* are all answered with its id.
C3_SameKeyOneReservation ==
    /\ \A i \in Holds :
          ( /\ KeyGiven(calls[i].idempotency_key)
            /\ calls[i].resp.error # "no consent"
            /\ PolicyOk(i) )
          => /\ calls[i].resp.status = "HELD"
             /\ Has(IDEMPOTENCY, calls[i].idempotency_key)
             /\ calls[i].resp.reservation_id = IDEMPOTENCY[calls[i].idempotency_key]
             /\ Has(HOLDS, calls[i].resp.reservation_id)
    /\ Cardinality(DOMAIN HOLDS) = Cardinality(HeldKeys) + Cardinality(HeldWithoutKey)

C3_Witness ==
    \E i, j \in Holds :
        /\ i < j
        /\ KeyGiven(calls[i].idempotency_key)
        /\ calls[i].idempotency_key = calls[j].idempotency_key
        /\ PolicyOk(i) /\ PolicyOk(j)
        /\ calls[i].resp.status = "HELD" /\ calls[j].resp.status = "HELD"
        /\ calls[i].resp.reservation_id = calls[j].resp.reservation_id

CapturedEvents(rid) ==
    { n \in 1..Len(audit) : audit[n].action = "CAPTURED" /\ audit[n].reservation_id = rid }

\* no capture request bearing the key of request i overlapped request i
KeyAlone(i) ==
    \A n \in Captures \ {i} :
        calls[n].idempotency_key = calls[i].idempotency_key
        => (Successive(n, i) \/ Successive(i, n))

HoldStep == Len(calls') = Len(calls) + 1 /\ Last(calls').op = "hold"

\* C5: a hold request whose idempotency key is already in the hold registry is
\* answered HELD with the recorded reservation id whatever its other arguments
\* are, creates no reservation, and appends one HELD/ok audit row carrying the
\* reason "idempotent-return".
C5_IdempotentHold ==
    [][ ( /\ HoldStep
          /\ KeyGiven(Last(calls').idempotency_key)
          /\ Has(IDEMPOTENCY, Last(calls').idempotency_key)
          /\ Has(CONSENTS, Last(calls').user_id) )
        => LET c == Last(calls')
               rid == IDEMPOTENCY[c.idempotency_key]
           IN /\ c.resp.status = "HELD"
              /\ c.resp.reservation_id = rid
              /\ HOLDS' = HOLDS
              /\ IDEMPOTENCY' = IDEMPOTENCY
              /\ Len(audit') = Len(audit) + 1
              /\ SubSeq(audit', 1, Len(audit)) = audit
              /\ Last(audit').action = "HELD"
              /\ Last(audit').status = "ok"
              /\ Last(audit').reservation_id = rid
              /\ Last(audit').details = Details(<<"idempotent-return">>)
      ]_vars

C5_Witness ==
    \E i, j \in Holds :
        /\ i < j
        /\ KeyGiven(calls[i].idempotency_key)
        /\ calls[i].idempotency_key = calls[j].idempotency_key
        /\ calls[i].resp.status = "HELD"
        /\ ~PolicyOk(j)
        /\ calls[j].resp.status = "HELD"
        /\ calls[j].resp.reservation_id = calls[i].resp.reservation_id
        /\ Cardinality(DOMAIN HOLDS) = 1

Rank(status) ==
    CASE status = "HELD" -> 1
      [] status = "APPROVED" -> 2
      [] status = "CONFIRMED" -> 3

\* C6: no step moves a reservation to an earlier state of
\* HELD -> APPROVED -> CONFIRMED; a CONFIRMED reservation stays CONFIRMED.
C6_StateMonotonic ==
    [][ \A r \in DOMAIN HOLDS : Rank(HOLDS'[r].status) >= Rank(HOLDS[r].status) ]_vars

\* the step is the arrival of a capture request
CaptureArrives == Len(calls') = Len(calls) + 1 /\ Last(calls').op = "capture"

\* the error a capture request must get before the gateway step, None if none
ExpectedRejection(c) ==
    IF ~Has(HOLDS, c.reservation_id) THEN "no reservation"
    ELSE IF HOLDS[c.reservation_id].status # "APPROVED" THEN "reservation not approved"
    ELSE IF ~Has(PAYMENT_TOKENS, c.user_id) THEN "no payment token"
    ELSE None

\* C7: a capture request (consent and scope given, no replay) for an unknown
\* reservation, for a reservation that is not APPROVED, or by a user with no
\* stored payment method is answered with the matching error, calls no gateway
\* operation and leaves the reservations and both registries as they were.
C7_RejectedCaptureNoEffect ==
    [][ ( /\ CaptureArrives
          /\ Has(CONSENTS, Last(calls').user_id)
          /\ CONSENTS[Last(calls').user_id].scopes.payment_processing
          /\ ~( KeyGiven(Last(calls').idempotency_key)
                /\ Has(IDEMPOTENCY_CAPTURE, Last(calls').idempotency_key) )
          /\ ExpectedRejection(Last(calls')) # None )
        => /\ Last(calls').pc = "done"
           /\ Last(calls').resp.error = ExpectedRejection(Last(calls'))
           /\ Last(calls').resp.code >= 400
           /\ UNCHANGED <<gatewayAuthorize, gatewayCapture, HOLDS,
                          IDEMPOTENCY, IDEMPOTENCY_CAPTURE>>
      ]_vars

C7_Witness ==
    \E i \in Captures :
        /\ calls[i].resp.error = "reservation not approved"
        /\ Has(HOLDS, calls[i].reservation_id)
        /\ HOLDS[calls[i].reservation_id].status = "HELD"
        /\ gatewayAuthorize = << >>

\* C8: every hold, approve or capture request that has returned, a capture
\* replay excepted, has appended one audit row.
C8_OneEventPerCall ==
    \A i \in 1..Len(calls) :
        (calls[i].pc = "done" /\ ~IsReplay(i)) => calls[i].events = 1

\* the step resumes capture request i with the gateway's answer to capture
CaptureReturns(i) ==
    calls[i].op = "capture" /\ calls[i].pc = "capture" /\ calls'[i].pc = "done"

\* C9: when the gateway has authorized and captured, the capture request sets
\* the reservation to CONFIRMED, stores the payment id on it, appends one
\* CAPTURED/ok audit row for it, and writes the capture result into the capture
\* registry exactly when it bears an idempotency key.
C9_SuccessfulCapture ==
    [][ \A i \in 1..Len(calls) :
          ( /\ CaptureReturns(i)
            /\ calls'[i].resp.payment # Nothing
            /\ calls'[i].resp.payment[1].status = "captured" )
          => LET c == calls'[i]
                 rid == c.reservation_id
                 cap_res == c.resp.payment[1]
             IN /\ c.resp.status = "CONFIRMED"
                /\ HOLDS'[rid].status = "CONFIRMED"
                /\ cap_res.payment_id # Nothing
                /\ HOLDS'[rid].payment_id = cap_res.payment_id
                /\ Len(audit') = Len(audit) + 1
                /\ SubSeq(audit', 1, Len(audit)) = audit
                /\ Last(audit').action = "CAPTURED"
                /\ Last(audit').status = "ok"
                /\ Last(audit').reservation_id = rid
                /\ c.events = 1
                /\ IF KeyGiven(c.idempotency_key)
                   THEN IDEMPOTENCY_CAPTURE' =
                            Put(IDEMPOTENCY_CAPTURE, c.idempotency_key, cap_res)
                   ELSE IDEMPOTENCY_CAPTURE' = IDEMPOTENCY_CAPTURE
      ]_vars

\* capture request i went through the gateway and was answered CONFIRMED
Captured(i) ==
    /\ calls[i].pc = "done" /\ ReachedGateway(i) /\ calls[i].resp.status = "CONFIRMED"
    /\ calls[i].resp.payment[1].status = "captured"

C9_Witness ==
    \E i, j \in Captures :
        /\ Captured(i) /\ Captured(j)
        /\ KeyGiven(calls[i].idempotency_key)
        /\ ~KeyGiven(calls[j].idempotency_key)
        /\ HOLDS[calls[i].reservation_id].status = "CONFIRMED"
        /\ DOMAIN IDEMPOTENCY_CAPTURE = {calls[i].idempotency_key}
        /\ IDEMPOTENCY_CAPTURE[calls[i].idempotency_key] = calls[i].resp.payment[1]

\* the step resumes capture request i with the gateway's answer to authorize
AuthorizeReturns(i) ==
    calls[i].op = "capture" /\ calls[i].pc = "authorize" /\ calls'[i].pc # "authorize"

\* no other capture request for the reservation of request i was running or
\* arrived since request i arrived
CapturesAlone(i) ==
    \A j \in Captures \ {i} :
        calls[j].reservation_id = calls[i].reservation_id => Successive(j, i)

\* C10: when the gateway answers authorize with another status than
\* "authorized", the capture request appends one AUTHORIZED/error audit row,
\* does not call the gateway's capture, records nothing in the capture registry
\* and changes no reservation: the reservation stays APPROVED.
C10_AuthorizationFailure ==
    [][ \A i \in 1..Len(calls) :
          ( /\ AuthorizeReturns(i)
            /\ calls'[i].auth_res[1].status # "authorized" )
          => LET c == calls'[i]
                 rid == c.reservation_id
             IN /\ c.pc = "done"
                /\ c.resp.error = "authorization failed"
                /\ c.events = 1
                /\ Len(audit') = Len(audit) + 1
                /\ SubSeq(audit', 1, Len(audit)) = audit
                /\ Last(audit').action = "AUTHORIZED"
                /\ Last(audit').status = "error"
                /\ Last(audit').reservation_id = rid
                /\ UNCHANGED <<gatewayCapture, IDEMPOTENCY_CAPTURE, HOLDS>>
                /\ CapturesAlone(i) => HOLDS'[rid].status = "APPROVED"
      ]_vars

\* a capture whose authorization failed, retried with the same key, is executed
\* afresh and confirms the reservation
C10_Witness ==
    \E i, j \in Captures :
        /\ Successive(i, j)
        /\ calls[i].reservation_id = calls[j].reservation_id
        /\ KeyGiven(calls[i].idempotency_key)
        /\ calls[i].idempotency_key = calls[j].idempotency_key
        /\ calls[i].resp.error = "authorization failed"
        /\ Captured(j)
        /\ HOLDS[calls[j].reservation_id].status = "CONFIRMED"

\* C11: a reservation becomes CONFIRMED, and a capture result is recorded in
\* the capture registry, only when the gateway answered the capture with status
\* "captured"; on any other status the request changes no reservation (the
\* reservation stays APPROVED) and records nothing.
C11_ConfirmedOnlyWhenCaptured ==
    [][ \A i \in 1..Len(calls) :
          ( /\ CaptureReturns(i)
            /\ calls'[i].resp.payment # Nothing
            /\ calls'[i].resp.payment[1].status # "captured" )
          => /\ HOLDS' = HOLDS
             /\ IDEMPOTENCY_CAPTURE' = IDEMPOTENCY_CAPTURE
             /\ calls'[i].resp.status # "CONFIRMED"
      ]_vars

\* C12: a capture request by a user with consent and scope whose idempotency
\* key is already in the capture registry is answered with the stored capture
\* result, whatever reservation id it names; it calls no gateway operation,
\* appends no audit row and changes no reservation and no registry entry.
C12_ReplayIsPure ==
    [][ ( /\ CaptureArrives
          /\ Has(CONSENTS, Last(calls').user_id)
          /\ CONSENTS[Last(calls').user_id].scopes.payment_processing
          /\ KeyGiven(Last(calls').idempotency_key)
          /\ Has(IDEMPOTENCY_CAPTURE, Last(calls').idempotency_key) )
        => LET c == Last(calls')
           IN /\ c.pc = "done"
              /\ c.resp.code = 200
              /\ c.resp.status = "CONFIRMED"
              /\ c.resp.payment = Some(IDEMPOTENCY_CAPTURE[c.idempotency_key])
              /\ c.resp.reservation_id = c.reservation_id
              /\ c.gw = 0
              /\ c.events = 0
              /\ UNCHANGED <<HOLDS, IDEMPOTENCY, IDEMPOTENCY_CAPTURE, audit,
                             gatewayAuthorize, gatewayCapture, CONSENTS, PAYMENT_TOKENS>>
      ]_vars

\* a replay that names a reservation id no hold ever allocated
C12_Witness ==
    \E i, j \in Captures :
        /\ Successive(i, j)
        /\ Captured(i)
        /\ KeyGiven(calls[i].idempotency_key)
        /\ calls[j].idempotency_key = calls[i].idempotency_key
        /\ ~Has(HOLDS, calls[j].reservation_id)
        /\ IsReplay(j)
        /\ calls[j].resp.payment = calls[i].resp.payment
        /\ Len(gatewayAuthorize) = 1 /\ Len(gatewayCapture) = 1

\* the step appends one audit row and changes no earlier row
OneRowAppended == Len(audit') = Len(audit) + 1 /\ SubSeq(audit', 1, Len(audit)) = audit

Unconsented == { i \in Captures : calls[i].resp.error = "no consent" }

C15_CaptureWithoutScope ==
    [][ ( /\ CaptureArrives
          /\ Has(CONSENTS, Last(calls').user_id)
          /\ ~CONSENTS[Last(calls').user_id].scopes.payment_processing )
        => LET c == Last(calls')
           IN /\ c.pc = "done"
              /\ c.resp.code = 403
              /\ c.resp.error = "payment_processing scope missing"
              /\ c.resp.error # "no consent"
              /\ c.resp.status = None
              /\ c.resp.payment = Nothing
              /\ c.gw = 0
              /\ UNCHANGED <<HOLDS, IDEMPOTENCY, IDEMPOTENCY_CAPTURE, PAYMENT_TOKENS,
                             CONSENTS, gatewayAuthorize, gatewayCapture>>
              /\ OneRowAppended
              /\ c.events = 1
              /\ Last(audit').actor = c.user_id
              /\ Last(audit').action = "CAPTURED"
              /\ Last(audit').status = "error"
              /\ Last(audit').reservation_id = c.reservation_id
              /\ Last(audit').details =
                     Some([reasons |-> <<"payment_processing scope missing">>])
      ]_vars

\* the scope is withdrawn after a capture; the same key is then refused, not replayed
C15_Witness ==
    \E i, j \in Captures :
        /\ i < j
        /\ Captured(i)
        /\ KeyGiven(calls[i].idempotency_key)
        /\ calls[j].idempotency_key = calls[i].idempotency_key
        /\ calls[j].user_id = calls[i].user_id
        /\ Has(IDEMPOTENCY_CAPTURE, calls[j].idempotency_key)
        /\ calls[j].resp.code = 403
        /\ calls[j].resp.error = "payment_processing scope missing"
        /\ Len(gatewayAuthorize) = 1

\* ------------------------------------------------------------------ policy rules
\* The three rules as the hold's arguments violate them (args as kept in calls).
CapViolated(a) ==
    a.policy[1].max_budget_minor # 0 /\ a.amount_minor[1] > a.policy[1].max_budget_minor
CurrencyMismatch(a) == Upper(a.currency) # Upper(a.policy[1].currency)
CurrencyViolated(a) == a.policy[1].currency # "" /\ CurrencyMismatch(a)
VendorViolated(a) ==
    /\ a.policy[1].allowed_vendors # Nothing
    /\ a.vendor # None
    /\ \A n \in 1..Len(a.policy[1].allowed_vendors[1]) :
           a.policy[1].allowed_vendors[1][n] # a.vendor

\* the rule each reason of a reasons list names, in the order of the list
Kinds(reasons) == [n \in 1..Len(reasons) |-> reasons[n][1]]

\* one entry per violated rule, in the order cap, currency, vendor
ViolatedKinds(a) ==
    (IF CapViolated(a) THEN <<"amount exceeds cap">> ELSE << >>)
    \o (IF CurrencyViolated(a) THEN <<"currency not allowed">> ELSE << >>)
    \o (IF VendorViolated(a) THEN <<"vendor not in allowed list">> ELSE << >>)

\* C16: a hold request (consent given, key not in the hold registry) whose
\* arguments violate the policy is answered "denied" with the violation
\* reasons, creates no reservation, registers nothing under its key, and
\* appends one PROPOSED/denied audit row that carries the same reasons.
C16_DeniedHold ==
    [][ ( /\ HoldStep
          /\ Has(CONSENTS, Last(calls').user_id)
          /\ ~Has(IDEMPOTENCY, Last(calls').idempotency_key)
          /\ ViolatedKinds(Last(calls').args) # << >> )
        => LET c == Last(calls')
           IN /\ c.resp.code = 400
              /\ c.resp.status = "denied"
              /\ c.resp.reservation_id = None
              /\ Kinds(c.resp.reasons) = ViolatedKinds(c.args)
              /\ UNCHANGED <<HOLDS, IDEMPOTENCY, IDEMPOTENCY_CAPTURE>>
              /\ ~Has(IDEMPOTENCY', c.idempotency_key)
              /\ OneRowAppended
              /\ c.events = 1
              /\ Last(audit').actor = c.user_id
              /\ Last(audit').action = "PROPOSED"
              /\ Last(audit').status = "denied"
              /\ Last(audit').reservation_id = None
              /\ Last(audit').details = Some([reasons |-> c.resp.reasons])
      ]_vars

\* a denied hold left its key free: the next hold with that key creates the
\* first reservation and is not answered as a replay
C16_Witness ==
    \E i, j \in Holds :
        /\ i < j
        /\ KeyGiven(calls[i].idempotency_key)
        /\ calls[j].idempotency_key = calls[i].idempotency_key
        /\ calls[i].resp.status = "denied"
        /\ Len(calls[i].resp.reasons) = 2
        /\ calls[j].resp.status = "HELD"
        /\ calls[j].resp.idempotent = None
        /\ calls[j].resp.reservation_id = ResId(1)
        /\ Cardinality(DOMAIN HOLDS) = 1
        /\ Len(audit) = 2 /\ audit[1].status = "denied"

\* the hold requests that got as far as the policy evaluation (no key is sent
\* under SpecPolicy, so every hold with consent is evaluated)
Evaluated == { i \in Holds : calls[i].resp.error # "no consent" }

\* C17: for every amount, currency, vendor and policy, the evaluation checks
\* all three rules: the reasons hold one entry per violated rule among cap (cap
\* nonzero and amount over the cap), currency (policy currency set and a
\* case-insensitive mismatch) and vendor (allow-list non-null, vendor given and
\* not in the list), in that order, and the hold is allowed exactly when there
\* is no reason.
C17_AllRulesChecked ==
    \A i \in Evaluated :
        /\ Kinds(calls[i].resp.reasons) = ViolatedKinds(calls[i].args)
        /\ calls[i].resp.status = "HELD" <=> calls[i].resp.reasons = << >>
        /\ calls[i].resp.status = "denied" <=> calls[i].resp.reasons # << >>

\* all three rules violated at once
C17_Witness ==
    \E i \in Evaluated :
        /\ CapViolated(calls[i].args)
        /\ CurrencyViolated(calls[i].args)
        /\ VendorViolated(calls[i].args)
        /\ calls[i].resp.status = "denied"
        /\ Kinds(calls[i].resp.reasons) =
               <<"amount exceeds cap", "currency not allowed", "vendor not in allowed list">>

\* C17 as worded, the currency rule being any case-insensitive mismatch between
\* the request's currency and the policy's
C17_AnyCurrencyMismatch ==
    \A i \in Evaluated :
        Kinds(calls[i].resp.reasons) =
            (IF CapViolated(calls[i].args) THEN <<"amount exceeds cap">> ELSE << >>)
            \o (IF CurrencyMismatch(calls[i].args)
                THEN <<"currency not allowed">> ELSE << >>)
            \o (IF VendorViolated(calls[i].args)
                THEN <<"vendor not in allowed list">> ELSE << >>)

\* the reasons of hold request i name the vendor rule
VendorReason(i) ==
    \E n \in 1..Len(calls[i].resp.reasons) :
        calls[i].resp.reasons[n][1] = "vendor not in allowed list"

\* the vendor of hold request i is an entry of its policy's allow-list
VendorListed(i) ==
    \E n \in 1..Len(calls[i].args.policy[1].allowed_vendors[1]) :
        calls[i].args.policy[1].allowed_vendors[1][n] = calls[i].args.vendor

\* C18: a hold request without a vendor never gets the vendor reason, whatever
\* the allow-list is (absent, empty or filled); a hold request with a vendor
\* and a non-null allow-list (empty included) is denied with the vendor reason
\* unless the vendor is in the list, and gets no vendor reason if it is.
C18_VendorRule ==
    \A i \in Evaluated :
        LET a == calls[i].args
        IN /\ a.vendor = None => ~VendorReason(i)
           /\ a.policy[1].allowed_vendors = Nothing => ~VendorReason(i)
           /\ (a.vendor # None /\ a.policy[1].allowed_vendors # Nothing)
                => IF VendorListed(i)
                   THEN ~VendorReason(i)
                   ELSE calls[i].resp.status = "denied" /\ VendorReason(i)

\* a vendor met by an empty allow-list: denied on the vendor rule alone
C18_Witness ==
    \E i \in Evaluated :
        /\ calls[i].args.vendor # None
        /\ calls[i].args.policy[1].allowed_vendors = Some(<< >>)
        /\ calls[i].resp.status = "denied"
        /\ Kinds(calls[i].resp.reasons) = <<"vendor not in allowed list">>
        /\ DOMAIN HOLDS = {}

\* every entry of the registry is still there, with the value it had
Kept(registry, registry2) ==
    \A k \in DOMAIN registry : k \in DOMAIN registry2 /\ registry2[k] = registry[k]

C20_KeylessCallsSkipRegistries ==
    [][ /\ (HoldStep /\ ~KeyGiven(Last(calls').idempotency_key))
             => /\ UNCHANGED <<IDEMPOTENCY, IDEMPOTENCY_CAPTURE>>
                /\ Last(calls').resp.idempotent # "True"
                /\ Last(calls').resp.status = "HELD"
                     => /\ ~Has(HOLDS, Last(calls').resp.reservation_id)
                        /\ Has(HOLDS', Last(calls').resp.reservation_id)
        /\ (CaptureArrives /\ ~KeyGiven(Last(calls').idempotency_key))
             => /\ UNCHANGED <<IDEMPOTENCY, IDEMPOTENCY_CAPTURE>>
                /\ Last(calls').resp.idempotent # "True"
                /\ Last(calls').resp.status # "CONFIRMED"
        /\ \A i \in 1..Len(calls) :
             ( /\ AuthorizeReturns(i) \/ CaptureReturns(i)
               /\ ~KeyGiven(calls[i].idempotency_key) )
             => /\ UNCHANGED <<IDEMPOTENCY, IDEMPOTENCY_CAPTURE>>
                /\ calls'[i].resp.idempotent # "True"
      ]_vars

\* with a key in the hold registry, a keyless hold has created a second
\* reservation and a keyless capture has gone through the gateway, leaving the
\* capture registry empty
C20_Witness ==
    \E h, g \in Holds, c \in Captures :
        /\ h < g
        /\ KeyGiven(calls[h].idempotency_key) /\ calls[h].resp.status = "HELD"
        /\ ~KeyGiven(calls[g].idempotency_key) /\ calls[g].resp.status = "HELD"
        /\ calls[g].resp.reservation_id # calls[h].resp.reservation_id
        /\ ~KeyGiven(calls[c].idempotency_key)
        /\ Captured(c)
        /\ calls[c].resp.idempotent = "False"
        /\ DOMAIN IDEMPOTENCY = {calls[h].idempotency_key}
        /\ IDEMPOTENCY_CAPTURE = << >>

\* the audit rows written for reservation rid, in ledger order
EventsOf(rid) == SelectSeq(audit, LAMBDA e : e.reservation_id = rid)

\* the requests that concern reservation rid: the holds answered with it and
\* the approve and capture requests that name it
CallsAbout(rid) ==
    { i \in 1..Len(calls) :
        \/ calls[i].op = "hold" /\ calls[i].resp.reservation_id = rid
        \/ calls[i].op # "hold" /\ calls[i].reservation_id = rid }

\* reservation rid was driven through one hold, one approve and one capture
\* that the gateway captured, and nothing else
DrivenOnce(rid) ==
    LET about == CallsAbout(rid)
    IN  /\ Cardinality(about) = 3
        /\ \E h \in about : calls[h].op = "hold" /\ calls[h].resp.status = "HELD"
        /\ \E a \in about : calls[a].op = "approve" /\ calls[a].resp.status = "APPROVED"
        /\ \E c \in about : calls[c].op = "capture" /\ Captured(c)

\* the audit action that reports a reservation state
ActionOf(status) ==
    CASE status = "HELD" -> "HELD"
      [] status = "APPROVED" -> "APPROVED"
      [] status = "CONFIRMED" -> "CAPTURED"

\* the step creates reservation rid or writes its state
Transition(rid) ==
    /\ Has(HOLDS', rid)
    /\ ~Has(HOLDS, rid) \/ HOLDS'[rid] # HOLDS[rid]

\* C21: a reservation driven through hold, approve and one successful capture
\* has three audit rows, HELD, APPROVED, CAPTURED, in that order; and every
\* step that creates a reservation or writes its state appends, in that same
\* step, the one row that reports it, so the rows of a reservation lie in the
\* ledger in the order of its transitions.
C21_LedgerOrder ==
    [][ /\ \A rid \in DOMAIN HOLDS' :
              DrivenOnce(rid)'
              => /\ Len(EventsOf(rid)') = 3
                 /\ EventsOf(rid)'[1].action = "HELD" /\ EventsOf(rid)'[1].status = "ok"
                 /\ EventsOf(rid)'[2].action = "APPROVED" /\ EventsOf(rid)'[2].status = "ok"
                 /\ EventsOf(rid)'[3].action = "CAPTURED" /\ EventsOf(rid)'[3].status = "ok"
        /\ \A rid \in DOMAIN HOLDS' :
              Transition(rid)
              => /\ OneRowAppended
                 /\ Last(audit').reservation_id = rid
                 /\ Last(audit').status = "ok"
                 /\ Last(audit').action = ActionOf(HOLDS'[rid].status)
      ]_vars

C21_Witness ==
    \E rid \in DOMAIN HOLDS :
        /\ DrivenOnce(rid)
        /\ HOLDS[rid].status = "CONFIRMED"
        /\ Len(EventsOf(rid)) = 3
        /\ EventsOf(rid)[3].action = "CAPTURED"

\* C22: the ledger is append-only: after any step (of hold, approve, capture
\* or the audit query) every row written before is still there, in its place
\* and with every field as it was.
C22_AppendOnly ==
    [][ /\ Len(audit') >= Len(audit)
        /\ SubSeq(audit', 1, Len(audit)) = audit
      ]_vars

Lists == CallsOf("list")

\* a ledger holding the three rows of a captured reservation was queried
C22_Witness ==
    \E i \in Lists :
        /\ Len(audit) = 3
        /\ Len(calls[i].listing) > 0
        /\ \A n \in 1..Len(audit) : audit[n].id = n
        /\ audit[1].action = "HELD" /\ audit[2].action = "APPROVED"
        /\ audit[3].action = "CAPTURED"

\* the step is an audit query
ListStep == Len(calls') = Len(calls) + 1 /\ Last(calls').op = "list"

\* the row of the ledger a returned dict was made from
RowOf(d) == audit[d.id]

RECURSIVE EventsUpTo(_)
EventsUpTo(n) == IF n = 0 THEN 0 ELSE calls[n].events + EventsUpTo(n - 1)

Success(i) ==
    calls[i].pc = "done" /\ calls[i].resp.status \in {"HELD", "APPROVED", "CONFIRMED"}

\* C24: a hold, approve or capture request whose audit row could not be written
\* is answered with the failure (500), never with HELD, APPROVED or CONFIRMED;
\* every request answered with one of these, a capture replay excepted (it
\* makes no transition and writes no row), has its row in the ledger.
C24_StorageFailurePropagates ==
    /\ Len(audit) = EventsUpTo(Len(calls))
    /\ \A i \in 1..Len(calls) :
          /\ (calls[i].pc = "done" /\ calls[i].events = 0 /\ ~IsReplay(i))
                => calls[i].resp.code >= 400 /\ ~Success(i)
          /\ (Success(i) /\ ~IsReplay(i)) => calls[i].events = 1

\* a hold stored its reservation, failed to write its row and was answered 500
C24_Witness ==
    \E i \in Holds :
        /\ calls[i].resp.code = 500
        /\ calls[i].resp.error = "storage failure"
        /\ calls[i].events = 0
        /\ Cardinality(DOMAIN HOLDS) = 1
        /\ audit = << >>

\* C25: every stored reservation has a non-negative amount.
C25_NonNegativeAmounts ==
    \A r \in DOMAIN HOLDS : HOLDS[r].amount_minor >= 0

\* the hold requests answered HELD with a reservation of their own (no replay)
NewHolds ==
    { i \in Holds : calls[i].resp.status = "HELD" /\ calls[i].resp.idempotent # "True" }

\* C26: the store holds as many reservations as there were successful holds
\* that were not replays.
C26_OneReservationPerSuccessfulHold ==
    Cardinality(DOMAIN HOLDS) = Cardinality(NewHolds)

\* C26, the part about ids: a step never removes a reservation, and a hold that
\* stores one gives it an id no stored reservation has.
C26_FreshIdsNeverRemoved ==
    [][ /\ DOMAIN HOLDS \subseteq DOMAIN HOLDS'
        /\ Cardinality(DOMAIN HOLDS') <= Cardinality(DOMAIN HOLDS) + 1
        /\ \A r \in DOMAIN HOLDS' \ DOMAIN HOLDS :
              /\ HOLDS'[r].status = "HELD"
              /\ Len(calls') = Len(calls) + 1
              /\ calls'[Len(calls')].op = "hold" ]_vars

Approves == CallsOf("approve")

\* this step is an approve request, from its arrival to its return
ApproveStep ==
    /\ Len(calls') = Len(calls) + 1
    /\ calls'[Len(calls')].op = "approve"

\* C27: an approve request for an unknown id is answered NotFound (404) and
\* changes nothing; for a reservation in HELD it sets APPROVED and appends one
\* APPROVED/ok row whose actor is the reservation's owner; for a reservation
\* already APPROVED it does the same and the reservation stays APPROVED.
C27_Approve ==
    [][ ApproveStep =>
          LET c == calls'[Len(calls')]
              rid == c.reservation_id
          IN  /\ UNCHANGED <<CONSENTS, PAYMENT_TOKENS, IDEMPOTENCY, IDEMPOTENCY_CAPTURE,
                             gatewayAuthorize, gatewayCapture>>
              /\ ~Has(HOLDS, rid) =>
                    /\ c.resp.code = 404
                    /\ c.resp.status = None
                    /\ UNCHANGED <<HOLDS, audit>>
              /\ (Has(HOLDS, rid) /\ HOLDS[rid].status \in {"HELD", "APPROVED"}) =>
                    /\ c.resp.code = 200
                    /\ c.resp.status = "APPROVED"
                    /\ c.resp.reservation_id = rid
                    /\ HOLDS' = [HOLDS EXCEPT ![rid].status = "APPROVED"]
                    /\ OneRowAppended
                    /\ audit'[Len(audit')].action = "APPROVED"
                    /\ audit'[Len(audit')].status = "ok"
                    /\ audit'[Len(audit')].actor = HOLDS[rid].user_id
                    /\ audit'[Len(audit')].reservation_id = rid ]_vars

\* a reservation approved twice, APPROVED after the second approval, with the
\* two rows in the ledger
C27_Witness ==
    \E i, j \in Approves :
        /\ i < j
        /\ calls[i].reservation_id = calls[j].reservation_id
        /\ calls[i].resp.status = "APPROVED"
        /\ calls[j].resp.status = "APPROVED"
        /\ Has(HOLDS, calls[i].reservation_id)
        /\ HOLDS[calls[i].reservation_id].status = "APPROVED"
        /\ Cardinality({ n \in 1..Len(audit) :
                           /\ audit[n].action = "APPROVED"
                           /\ audit[n].reservation_id = calls[i].reservation_id }) = 2

\* ------------------------------------------------------------------ progress
\* The gateway answers every authorize and every capture it was sent, and the
\* event loop resumes the coroutine that awaits the answer: each request that
\* stands at an await takes its next step at last.
Resumes(i) ==
    /\ WF_vars(i <= Len(calls) /\ \E st \in AuthorizeStatus : capture_authorized(i, st))
    /\ WF_vars(i <= Len(calls) /\ \E st \in CaptureStatus : capture_captured(i, st))

\* one user, one reservation: the requests differ in their order and overlap
HoldRequestLive ==
    { [user_id |-> "u1", amount_minor |-> 1, currency |-> "USD", vendor |-> "Acme",
       policy |-> PolicyAcme, idempotency_key |-> None] }

CaptureRequestLive ==
    { [user_id |-> "u1", reservation_id |-> ResId(1), idempotency_key |-> k] : k \in Keys }

NextLive ==
    \/ set_consent([user_id |-> "u1", payment_processing |-> TRUE])
    \/ store_payment_token("u1")
    \/ \E payload \in HoldRequestLive : autonomous_hold(payload)
    \/ autonomous_approve([reservation_id |-> ResId(1)])
    \/ \E payload \in CaptureRequestLive : capture_begin(payload)
    \/ \E i \in 1..Len(calls), st \in AuthorizeStatus : capture_authorized(i, st)
    \/ \E i \in 1..Len(calls), st \in CaptureStatus : capture_captured(i, st)

SpecLive == Init /\ [][NextLive]_vars /\ \A i \in 1..MaxCalls : Resumes(i)

\* the capture request stands at the gateway's authorize or capture
AtGateway(i) ==
    i <= Len(calls) /\ calls[i].op = "capture" /\ calls[i].pc \in {"authorize", "capture"}

\* the capture request has returned: CONFIRMED with its reservation in
\* CONFIRMED, or the gateway's refusal reported
Completed(i) ==
    /\ i <= Len(calls)
    /\ calls[i].pc = "done"
    /\ \/ /\ calls[i].resp.status = "CONFIRMED"
          /\ Has(HOLDS, calls[i].reservation_id)
          /\ HOLDS[calls[i].reservation_id].status = "CONFIRMED"
       \/ calls[i].resp.error = "authorization failed"

\* C28: when the gateway answers every call, a capture request that has sent
\* the gateway's authorize returns at last, with its reservation CONFIRMED or
\* with the gateway's refusal reported, whatever requests run beside it.
C28_CaptureCompletes ==
    \A i \in 1..MaxCalls : AtGateway(i) ~> Completed(i)

\* two capture requests of one reservation ran side by side and both returned,
\* one of them after the other had confirmed the reservation
C28_Witness ==
    \E i, j \in Captures :
        /\ Concurrent(i, j)
        /\ calls[i].reservation_id = calls[j].reservation_id
        /\ ReachedGateway(i) /\ ReachedGateway(j)
        /\ calls[i].pc = "done" /\ calls[j].pc = "done"
        /\ calls[i].resp.status = "CONFIRMED"
        /\ calls[j].resp.status = "CONFIRMED"

\* the invocations of the gateway's capture made for reservation r
GatewayCapturesOf(r) ==
    { n \in 1..Len(gatewayCapture) :
        gatewayAuthorize[gatewayCapture[n].authorization_id].reservation_id = r }

\* C29: the gateway's capture is invoked at most once for a reservation.
C29_CapturedOncePerReservation ==
    \A r \in ReservationIds : Cardinality(GatewayCapturesOf(r)) <= 1

\* this step answers capture request i with CONFIRMED
AnsweredConfirmed(i) ==
    /\ calls'[i].op = "capture"
    /\ calls'[i].pc = "done"
    /\ calls'[i].resp.status = "CONFIRMED"
    /\ i > Len(calls) \/ calls[i].pc # "done"

\* the gateway's capture that produced the payment result was made for r
PaidFor(payment, r) ==
    /\ payment # Nothing
    /\ gatewayAuthorize'[payment[1].authorization_id].reservation_id = r

\* C30: when a capture request is answered CONFIRMED for a reservation id, as a
\* replay from the capture registry too, the reservation is in the store in
\* state CONFIRMED and the payment result returned is the one of the gateway's
\* capture for that reservation.
C30_ConfirmedMeansConfirmed ==
    [][ \A i \in 1..Len(calls') :
          AnsweredConfirmed(i) =>
              LET r == calls'[i].resp.reservation_id
              IN  /\ Has(HOLDS', r)
                  /\ HOLDS'[r].status = "CONFIRMED"
                  /\ PaidFor(calls'[i].resp.payment, r) ]_vars

\* ------------------------------------------------------------------ two reservations
\* u1 holds two reservations that differ in amount, currency and vendor, under
\* a policy with no cap, no currency and no allow-list
PolicyOpen ==
    [max_budget_minor |-> 0, currency |-> "", allowed_vendors |-> Nothing,
     require_two_step_payment |-> TRUE]

HoldRequestFrame ==
    { [user_id |-> "u1", amount_minor |-> 1, currency |-> "USD", vendor |-> "Acme",
       policy |-> PolicyOpen, idempotency_key |-> None],
      [user_id |-> "u1", amount_minor |-> 2, currency |-> "EUR", vendor |-> "Zed",
       policy |-> PolicyOpen, idempotency_key |-> None] }

ReservationIdsFrame == { ResId(1), ResId(2) }

NextFrame ==
    \/ set_consent([user_id |-> "u1", payment_processing |-> TRUE])
    \/ store_payment_token("u1")
    \/ \E payload \in HoldRequestFrame : autonomous_hold(payload)
    \/ \E r \in ReservationIdsFrame : autonomous_approve([reservation_id |-> r])
    \/ \E r \in ReservationIdsFrame :
           capture_begin([user_id |-> "u1", reservation_id |-> r, idempotency_key |-> None])
    \/ \E i \in 1..Len(calls), st \in AuthorizeStatus : capture_authorized(i, st)
    \/ \E i \in 1..Len(calls), st \in CaptureStatus : capture_captured(i, st)

SpecFrame == Init /\ [][NextFrame]_vars

\* the hold request that created reservation rid
CreatedBy(h, rid) ==
    /\ h \in Holds
    /\ calls[h].resp.status = "HELD"
    /\ calls[h].resp.idempotent # "True"
    /\ calls[h].resp.reservation_id = rid

\* C31: no step changes the user, amount, currency or vendor of a stored
\* reservation, and every authorize sent to the gateway carries the amount and
\* currency of the hold request that created its reservation.
C31_HoldTermsKept ==
    [][ /\ \A r \in DOMAIN HOLDS :
              /\ Has(HOLDS', r)
              /\ HOLDS'[r].user_id = HOLDS[r].user_id
              /\ HOLDS'[r].amount_minor = HOLDS[r].amount_minor
              /\ HOLDS'[r].currency = HOLDS[r].currency
              /\ HOLDS'[r].vendor = HOLDS[r].vendor
        /\ \A n \in 1..Len(gatewayAuthorize') :
              \E h \in 1..Len(calls) :
                  /\ CreatedBy(h, gatewayAuthorize'[n].reservation_id)
                  /\ gatewayAuthorize'[n].amount_minor = calls[h].args.amount_minor[1]
                  /\ gatewayAuthorize'[n].currency = calls[h].args.currency ]_vars

\* the second of two reservations with different terms was approved and
\* captured, charged with its own amount and currency
C31_Witness ==
    /\ Has(HOLDS, ResId(2))
    /\ HOLDS[ResId(1)].amount_minor # HOLDS[ResId(2)].amount_minor
    /\ HOLDS[ResId(1)].currency # HOLDS[ResId(2)].currency
    /\ HOLDS[ResId(2)].status = "CONFIRMED"
    /\ \E n \in 1..Len(gatewayAuthorize) :
          /\ gatewayAuthorize[n].reservation_id = ResId(2)
          /\ gatewayAuthorize[n].amount_minor = HOLDS[ResId(2)].amount_minor
          /\ gatewayAuthorize[n].currency = HOLDS[ResId(2)].currency

\* the rows of the ledger that match the filters, most recent first
Matching(actor, action) ==
    Filtered(Filtered(OrderByCreatedAtDesc({ audit[n] : n \in 1..Len(audit) }),
                      "actor", actor), "action", action)

\* C32: the audit query with a limit of zero or more returns the
\* min(limit, number of matching rows) most recent rows that match the actor
\* and the action asked for.
C32_MostRecentMatching ==
    [][ (ListStep /\ Last(calls').args.limit >= 0)
        => LET c == Last(calls')
               matching == Matching(c.args.actor, c.args.action)
               expected == SubSeq(matching, 1, Min(c.args.limit, Len(matching)))
           IN  c.listing = [n \in 1..Len(expected) |-> Listed(expected[n])] ]_vars

\* ------------------------------------------------------------------ two owners
\* u1 and u2 both give consent with the payment scope and store a payment
\* token; u1 holds a reservation; either of them asks for its capture
Owners == {"u1", "u2"}

CaptureRequestOwners ==
    { [user_id |-> u, reservation_id |-> ResId(1), idempotency_key |-> None] : u \in Owners }

NextOwners ==
    \/ \E u \in Owners : set_consent([user_id |-> u, payment_processing |-> TRUE])
    \/ \E u \in Owners : store_payment_token(u)
    \/ \E payload \in HoldRequestLive : autonomous_hold(payload)
    \/ autonomous_approve([reservation_id |-> ResId(1)])
    \/ \E payload \in CaptureRequestOwners : capture_begin(payload)
    \/ \E i \in 1..Len(calls), st \in AuthorizeStatus : capture_authorized(i, st)
    \/ \E i \in 1..Len(calls), st \in CaptureStatus : capture_captured(i, st)

SpecOwners == Init /\ [][NextOwners]_vars

\* C33: a capture request that reaches the gateway (and so charges a payment
\* method and moves the reservation to CONFIRMED) is made by the user who owns
\* the reservation.
C33_OnlyOwnerCaptures ==
    \A i \in Captures :
        ReachedGateway(i) => calls[i].user_id = HOLDS[calls[i].reservation_id].user_id

====
